---- MODULE Spec2Model ----
(***************************************************************************)
(* Batch subsystem and trap dispatcher of rCore-Tutorial-v3 (chapter 2).   *)
(*                                                                         *)
(*   os/src/batch.rs         AppManager, load_app, run_next_app, stacks    *)
(*   os/src/trap/context.rs  TrapContext, app_init_context                 *)
(*   os/src/trap/mod.rs      trap_handler                                  *)
(*                                                                         *)
(* The machine is scaled down: addresses, the machine word and the sizes   *)
(* of the memory regions are small numbers, laid out in the same order as  *)
(* on the real machine (application images in the kernel's data section,   *)
(* then the execution window, then the memory after it).                   *)
(***************************************************************************)
EXTENDS Integers, Sequences, FiniteSets, TLC

(***************************************************************************)
(* Bounds and scaled sizes                                                 *)
(***************************************************************************)
\* largest application count drawn for the application table
MaxApps == 2
\* size in bytes of the source region holding the application images
SrcSize == 3
\* batch.rs:13 APP_SIZE_LIMIT (0x20000), scaled
APP_SIZE_LIMIT == 2
\* batch.rs:9 USER_STACK_SIZE (4096 * 2), scaled
USER_STACK_SIZE == 2
\* width of usize / isize in bits (64 on the target), scaled
UsizeBits == 16

\* batch.rs:10
KERNEL_STACK_SIZE == 8192
\* batch.rs:11
MAX_APP_NUM == 16

UsizeMod == 2 ^ UsizeBits

(***************************************************************************)
(* Memory layout                                                           *)
(***************************************************************************)
\* first address of the application images (link_app.S data, below the window)
SRC_BASE == 1
SrcAddrs == SRC_BASE .. (SRC_BASE + SrcSize)
\* batch.rs:12 APP_BASE_ADDRESS (0x80400000), scaled: above the images
APP_BASE_ADDRESS == SRC_BASE + SrcSize + 1
Window == APP_BASE_ADDRESS .. (APP_BASE_ADDRESS + APP_SIZE_LIMIT - 1)
\* the modelled memory ends where the largest image copied to the window ends
MemTop == APP_BASE_ADDRESS + APP_SIZE_LIMIT + SrcSize
Addrs == 0 .. (MemTop + USER_STACK_SIZE - 1)
\* address of USER_STACK.data (a static of the kernel image)
USER_STACK_ADDR == MemTop
StackAddrs == USER_STACK_ADDR .. (USER_STACK_ADDR + USER_STACK_SIZE - 1)
\* address of KERNEL_STACK.data (the static before it)
KERNEL_STACK_ADDR == USER_STACK_ADDR + USER_STACK_SIZE

\* the byte 0xff, which no application image contains
Junk == 2 ^ 8 - 1
\* the byte of the application images at address a: all bytes differ, none is 0
ImageByte(a) == (a - SRC_BASE) + 1

VARIABLES
    num_app,      \* AppManager.num_app
    current_app,  \* AppManager.current_app
    app_start,    \* AppManager.app_start, [0..MAX_APP_NUM -> address]
    mem,          \* physical memory, [Addrs -> byte]
    cx,           \* the TrapContext at the top of KERNEL_STACK
    sstatus,      \* CSR sstatus
    scause,       \* CSR scause (the cause of the last trap)
    pc,           \* where control is: boot, user, trap, shutdown, panic
                  \* (ctx, ctx_done: app_init_context called on its own)
    in_flight,    \* index of the application running in user mode, or NoApp
    loaded,       \* console: the ids printed by "[kernel] Loading app_{}"
    init_args,    \* arguments of the last call of app_init_context
    sys_log,      \* the calls of syscall() the current trap_handler call made,
                  \* each with its result
    blob,         \* the application table at _num_app: its count and markers
    borrowed,     \* APP_MANAGER is mutably borrowed (UPSafeCell)
    cx_addr,      \* the address of the TrapContext cx, or NoAddr
    mem2,         \* a second run compared with this one: its memory
    cx2,          \* a second run compared with this one: its TrapContext
    before        \* the memories of the two runs before the load compared

vars == <<num_app, current_app, app_start, mem, cx, sstatus, scause, pc,
          in_flight, loaded, init_args, sys_log, blob, borrowed, cx_addr,
          mem2, cx2, before>>

\* what only the comparison of two runs changes
second == <<mem2, cx2, before>>

NoApp == 0 - 1
NoAddr == 0 - 1
NoCause == "None"

(***************************************************************************)
(* trap/context.rs                                                         *)
(***************************************************************************)
Regs == 0 .. 31

\* Sstatus: the SPP field and, standing for the other fields, SPIE
SstatusVals == [spp : {"User", "Supervisor"}, spie : {0, 1}]

\* Sstatus::set_spp
set_spp(s, v) == [s EXCEPT !.spp = v]

\* core::mem::size_of::<TrapContext>(): repr(C), 32 registers, sstatus, sepc
TrapContext_size == (32 + 1 + 1) * (UsizeBits \div 8)

\* TrapContext::set_sp
set_sp(c, sp) == [c EXCEPT !.x[2] = sp]

\* app_init_context without set_spp
app_init_context_keep_spp(entry, sp, csr) ==
    set_sp([x |-> [i \in Regs |-> 0], sstatus |-> csr, sepc |-> entry], sp)

\* TrapContext::app_init_context; csr is the value sstatus::read() returns
app_init_context(entry, sp, csr) ==
    set_sp([x |-> [i \in Regs |-> 0],
            sstatus |-> set_spp(csr, "User"),
            sepc |-> entry], sp)

(***************************************************************************)
(* batch.rs                                                                *)
(***************************************************************************)
\* UserStack::get_sp
UserStack_get_sp == USER_STACK_ADDR + USER_STACK_SIZE

\* KernelStack::get_sp
KernelStack_get_sp == KERNEL_STACK_ADDR + KERNEL_STACK_SIZE

\* push_context with the context placed at the top of the stack, above it
push_context_ptr_at_top == KernelStack_get_sp

\* KernelStack::push_context, cx_ptr
push_context_ptr == KernelStack_get_sp - TrapContext_size

\* KernelStack::push_context: the context is written at the one place below
\* the top of KERNEL_STACK, which the variable cx stands for
push_context(c) == c

\* UPSafeCell::exclusive_access: RefCell::borrow_mut, which panics when the
\* cell is borrowed
exclusive_access_ok(b) == ~b

\* the guard kept until after __restore
drop_app_manager_late(b) == b

\* drop(app_manager): the borrow b of the guard ends
drop_app_manager(b) == FALSE

\* slice index ..=n of a slice of length len: into_slice_range and the
\* bounds check with the test off by one
range_to_inclusive_ok_loose(n, len) == n # UsizeMod - 1 /\ n <= len

\* slice index ..=n of a slice of length len: into_slice_range panics for
\* n = usize::MAX, the bounds check for n + 1 > len
range_to_inclusive_ok(n, len) == n # UsizeMod - 1 /\ n + 1 <= len

\* the tables the linker can provide for n applications: n + 1 ascending
\* boundary markers inside the source region, the first image at its start
Tables(n) ==
    { t \in [0 .. n -> SrcAddrs] :
        /\ t[0] = SRC_BASE
        /\ \A i \in 0 .. (n - 1) : t[i] <= t[i + 1] }

\* lazy_static APP_MANAGER: app_start is zeroed, then its first n + 1
\* entries are copied from the table
AppManager_new(n, raw) ==
    [num_app |-> n,
     current_app |-> 0,
     app_start |-> [i \in 0 .. MAX_APP_NUM |-> IF i <= n THEN raw[i] ELSE 0]]

\* the test off by one, either way
load_app_exhausted_late(app_id, n) == app_id > n
load_app_exhausted_early(app_id, n) == app_id + 1 >= n

\* load_app, its first test
load_app_exhausted(app_id, n) == app_id >= n

\* load_app without the fill(0)
load_app_no_fill(m, tab, app_id) ==
    LET src == tab[app_id]
        len == tab[app_id + 1] - tab[app_id]
    IN  [a \in DOMAIN m |->
            IF a >= APP_BASE_ADDRESS /\ a < APP_BASE_ADDRESS + len
            THEN m[src + (a - APP_BASE_ADDRESS)]
            ELSE m[a]]

\* load_app with a fill(0) one byte short of the window
load_app_fill_short(m, tab, app_id) ==
    LET filled == [a \in DOMAIN m |->
                      IF a \in Window \ {APP_BASE_ADDRESS + APP_SIZE_LIMIT - 1}
                      THEN 0 ELSE m[a]]
        src == tab[app_id]
        len == tab[app_id + 1] - tab[app_id]
    IN  [a \in DOMAIN m |->
            IF a >= APP_BASE_ADDRESS /\ a < APP_BASE_ADDRESS + len
            THEN filled[src + (a - APP_BASE_ADDRESS)]
            ELSE filled[a]]

\* load_app after the test: fill(0) of the window, then copy_from_slice of
\* [app_start[app_id], app_start[app_id + 1]) to APP_BASE_ADDRESS
load_app(m, tab, app_id) ==
    LET filled == [a \in DOMAIN m |-> IF a \in Window THEN 0 ELSE m[a]]
        src == tab[app_id]
        len == tab[app_id + 1] - tab[app_id]
    IN  [a \in DOMAIN m |->
            IF a >= APP_BASE_ADDRESS /\ a < APP_BASE_ADDRESS + len
            THEN filled[src + (a - APP_BASE_ADDRESS)]
            ELSE filled[a]]

\* AppManager::get_current_app
get_current_app(cur) == cur

\* move_to_next_app that does not advance, or advances by two
move_to_next_app_stay(cur) == cur
move_to_next_app_skip(cur) == cur + 2

\* AppManager::move_to_next_app
move_to_next_app(cur) == cur + 1

\* sbi::shutdown: powers the machine off and does not return
shutdown ==
    /\ pc' = "shutdown"
    /\ in_flight' = NoApp

\* __restore (trap.S): restores the saved state c and returns to user mode
restore(c, app) ==
    /\ sstatus' = c.sstatus
    /\ pc' = "user"
    /\ in_flight' = app

\* run_next_app
run_next_app ==
    LET app_id == get_current_app(current_app) IN
    IF ~exclusive_access_ok(borrowed)
    THEN /\ pc' = "panic"
         /\ UNCHANGED <<num_app, current_app, app_start, mem, cx, sstatus,
                        scause, in_flight, loaded, init_args, sys_log, blob,
                        borrowed, cx_addr, second>>
    ELSE IF load_app_exhausted(app_id, num_app)
    THEN /\ shutdown
         /\ borrowed' = TRUE
         /\ UNCHANGED <<num_app, current_app, app_start, mem, cx, sstatus,
                        scause, loaded, init_args, sys_log, blob, cx_addr,
                        second>>
    ELSE /\ loaded' = Append(loaded, app_id)
         /\ mem' = load_app(mem, app_start, app_id)
         /\ current_app' = move_to_next_app(current_app)
         /\ init_args' = <<APP_BASE_ADDRESS, UserStack_get_sp>>
         /\ borrowed' = drop_app_manager(TRUE)
         /\ cx' = push_context(
                    app_init_context(APP_BASE_ADDRESS, UserStack_get_sp, sstatus))
         /\ cx_addr' = push_context_ptr
         /\ restore(cx', app_id)
         /\ UNCHANGED <<num_app, app_start, scause, sys_log, blob, second>>

(***************************************************************************)
(* trap/mod.rs                                                             *)
(***************************************************************************)
\* the causes trap_handler names
SyscallCause == "UserEnvCall"
StoreCauses == {"StoreFault", "StorePageFault"}
IllegalCause == "IllegalInstruction"
FaultCauses == StoreCauses \cup {IllegalCause}
\* some of the causes it does not name
OtherCauses == {"LoadFault", "SupervisorTimer"}
Causes == {SyscallCause} \cup FaultCauses \cup OtherCauses

\* syscall(): a call identifier and three arguments, one isize result
SyscallIds == {64, 93}
SyscallRets == {-1, 0, 5}

\* `as usize` of an isize
as_usize(r) == r % UsizeMod

\* the arguments trap_handler passes to syscall()
syscall_call(c) == [id |-> c.x[17], args |-> <<c.x[10], c.x[11], c.x[12]>>]

\* the UserEnvCall arm with the result in the wrong slot and sepc untouched
syscall_arm_wrong(c, ret) == [c EXCEPT !.x[11] = as_usize(ret)]

\* the UserEnvCall arm that also clears the call identifier
syscall_arm_clobbers(c, ret) ==
    [c EXCEPT !.sepc = @ + 4, !.x[10] = as_usize(ret), !.x[17] = 0]

\* the UserEnvCall arm: sepc += 4, x[10] = result as usize
syscall_arm(c, ret) == [c EXCEPT !.sepc = @ + 4, !.x[10] = as_usize(ret)]

\* the match with a fault arm that returns cx, or with a load fault killed
trap_arm_store_resumes(cause) ==
    IF cause = SyscallCause \/ cause \in StoreCauses THEN "syscall"
    ELSE IF cause = IllegalCause THEN "kill"
    ELSE "panic"
trap_arm_illegal_resumes(cause) ==
    IF cause = SyscallCause \/ cause = IllegalCause THEN "syscall"
    ELSE IF cause \in StoreCauses THEN "kill"
    ELSE "panic"
trap_arm_load_killed(cause) ==
    IF cause = SyscallCause THEN "syscall"
    ELSE IF cause \in FaultCauses \/ cause = "LoadFault" THEN "kill"
    ELSE "panic"

\* the arm of the match the cause selects
trap_arm(cause) ==
    IF cause = SyscallCause THEN "syscall"
    ELSE IF cause \in StoreCauses THEN "kill"
    ELSE IF cause = IllegalCause THEN "kill"
    ELSE "panic"

\* trap_handler, from __alltraps' call to its return through __restore
trap_handler ==
    /\ pc = "trap"
    /\ \/ /\ trap_arm(scause) = "syscall"
          /\ \E ret \in SyscallRets :
                /\ sys_log' = Append(sys_log, [call |-> syscall_call(cx), ret |-> ret])
                /\ cx' = syscall_arm(cx, ret)
          /\ restore(cx', in_flight)
          /\ UNCHANGED <<num_app, current_app, app_start, mem, scause, loaded,
                         init_args, blob, borrowed, cx_addr, second>>
       \/ /\ trap_arm(scause) = "kill"
          /\ run_next_app
       \/ /\ trap_arm(scause) = "panic"
          /\ pc' = "panic"
          /\ UNCHANGED <<num_app, current_app, app_start, mem, cx, sstatus,
                         scause, in_flight, loaded, init_args, sys_log, blob,
                         borrowed, cx_addr, second>>

(***************************************************************************)
(* The environment: rust_main, the application, the hardware               *)
(***************************************************************************)
\* rust_main: after batch::init, the first run_next_app
Boot ==
    /\ pc = "boot"
    /\ run_next_app

\* the application stores a byte into the execution window
UserWrite ==
    /\ pc = "user"
    /\ \E a \in Window, v \in {0, Junk} :
          /\ mem[a] # v
          /\ mem' = [mem EXCEPT ![a] = v]
    /\ UNCHANGED <<num_app, current_app, app_start, cx, sstatus, scause, pc,
                   in_flight, loaded, init_args, sys_log, blob, borrowed,
                   cx_addr, second>>

\* the register files an application traps with: a call identifier in x17,
\* arguments in x10..x12, its stack pointer in x2, a value of its own in x5
ArgTriples == {<<1, 2, 3>>, <<3, 1, 2>>}
UserRegFiles ==
    { [i \in Regs |->
         CASE i = 17 -> id
           [] i = 10 -> t[1]
           [] i = 11 -> t[2]
           [] i = 12 -> t[3]
           [] i = 2  -> UserStack_get_sp
           [] i = 5  -> 7
           [] OTHER  -> 0]
      : id \in SyscallIds, t \in ArgTriples }

\* the application traps: the hardware sets scause, sepc and sstatus.SPP, and
\* __alltraps saves the registers, sstatus and sepc at the top of KERNEL_STACK
Trap(cause, regs, epc) ==
    /\ pc = "user"
    /\ scause' = cause
    /\ sstatus' = set_spp(sstatus, "User")
    /\ cx' = [x |-> regs, sstatus |-> sstatus', sepc |-> epc]
    /\ sys_log' = <<>>
    /\ pc' = "trap"
    /\ UNCHANGED <<num_app, current_app, app_start, mem, in_flight, loaded,
                   init_args, blob, borrowed, cx_addr, second>>

\* the addresses of the trapping instructions
UserPcs == {APP_BASE_ADDRESS, APP_BASE_ADDRESS + 4}

UserTrap == \E cause \in Causes, regs \in UserRegFiles, epc \in UserPcs :
                Trap(cause, regs, epc)

\* the memory at boot: the images, a window holding w, zeroed stacks (statics
\* initialised with [0; SIZE]), and anything elsewhere
BootMem(w) ==
    [a \in Addrs |->
        IF a \in SrcAddrs THEN ImageByte(a)
        ELSE IF a \in Window THEN w[a]
        ELSE IF a \in StackAddrs THEN 0
        ELSE Junk]

\* the TrapContext place of the zeroed KERNEL_STACK
ZeroCx == [x |-> [i \in Regs |-> 0],
           sstatus |-> [spp |-> "User", spie |-> 0],
           sepc |-> 0]

\* the state when rust_main calls run_next_app: the manager is constructed,
\* the window holds whatever the memory held, KERNEL_STACK is zeroed
Init ==
    /\ \E n \in 0 .. MaxApps : \E raw \in Tables(n) :
          LET m == AppManager_new(n, raw) IN
          /\ blob = [num |-> n, table |-> raw]
          /\ num_app = m.num_app
          /\ current_app = m.current_app
          /\ app_start = m.app_start
    /\ \E w \in [Window -> {0, Junk}] : mem = BootMem(w)
    /\ cx = ZeroCx
    /\ sstatus \in SstatusVals
    /\ scause = NoCause
    /\ pc = "boot"
    /\ in_flight = NoApp
    /\ loaded = <<>>
    /\ init_args = <<>>
    /\ sys_log = <<>>
    /\ borrowed = FALSE
    /\ cx_addr = NoAddr
    /\ mem2 = [a \in Addrs |-> 0]
    /\ cx2 = ZeroCx
    /\ before = <<>>

Next == Boot \/ UserWrite \/ UserTrap \/ trap_handler

Spec == Init /\ [][Next]_vars

\* the kernel runs to its next transfer to user mode, to shutdown or to a panic
LiveSpec == Spec /\ WF_vars(Boot) /\ WF_vars(trap_handler)

(***************************************************************************)
(* app_init_context called on its own, with any entry and stack pointer    *)
(***************************************************************************)
\* largest entry and stack pointer drawn
CtxMax == 4

\* a saved state with nothing zero in it
GarbageCx == [x |-> [i \in Regs |-> 9],
              sstatus |-> [spp |-> "Supervisor", spie |-> 1],
              sepc |-> 9]

InitCtx ==
    /\ init_args \in (0 .. CtxMax) \X (0 .. CtxMax)
    /\ sstatus \in SstatusVals
    /\ cx = GarbageCx
    /\ pc = "ctx"
    /\ num_app = 0
    /\ current_app = 0
    /\ app_start = [i \in 0 .. MAX_APP_NUM |-> 0]
    /\ mem = [a \in Addrs |-> 0]
    /\ scause = NoCause
    /\ in_flight = NoApp
    /\ loaded = <<>>
    /\ sys_log = <<>>
    /\ blob = [num |-> 0, table |-> [i \in 0 .. 0 |-> SRC_BASE]]
    /\ borrowed = FALSE
    /\ cx_addr = NoAddr
    /\ mem2 = [a \in Addrs |-> 0]
    /\ cx2 = ZeroCx
    /\ before = <<>>

CtxBuild ==
    /\ pc = "ctx"
    /\ cx' = app_init_context(init_args[1], init_args[2], sstatus)
    /\ pc' = "ctx_done"
    /\ UNCHANGED <<num_app, current_app, app_start, mem, sstatus, scause,
                   in_flight, loaded, init_args, sys_log, blob, borrowed,
                   cx_addr, second>>

NextCtx == CtxBuild

CtxSpec == InitCtx /\ [][NextCtx]_vars

(***************************************************************************)
(* The construction of APP_MANAGER on its own, for any application count   *)
(***************************************************************************)
\* the counts drawn: up to two past MAX_APP_NUM, and usize::MAX
MgrCounts == (0 .. (MAX_APP_NUM + 2)) \cup {UsizeMod - 1}

\* tables of n + 1 ascending markers: application k is d bytes long, the
\* others are empty
StepTables(n) ==
    { [i \in 0 .. n |-> SRC_BASE + (IF i > k THEN d ELSE 0)] :
        k \in 0 .. n, d \in 0 .. SrcSize }

\* the application table blobs drawn; the markers of the one with usize::MAX
\* applications are never read
MgrBlobs ==
    { [num |-> n, table |-> t] : n \in {UsizeMod - 1}, t \in StepTables(0) }
    \cup UNION { { [num |-> n, table |-> t] : t \in StepTables(n) } :
                    n \in MgrCounts \ {UsizeMod - 1} }

InitMgr ==
    /\ blob \in MgrBlobs
    /\ pc = "init"
    /\ num_app = 0
    /\ current_app = 0
    /\ app_start = [i \in 0 .. MAX_APP_NUM |-> 0]
    /\ mem = [a \in Addrs |-> 0]
    /\ cx = ZeroCx
    /\ sstatus = [spp |-> "Supervisor", spie |-> 0]
    /\ scause = NoCause
    /\ in_flight = NoApp
    /\ loaded = <<>>
    /\ init_args = <<>>
    /\ sys_log = <<>>
    /\ borrowed = FALSE
    /\ cx_addr = NoAddr
    /\ mem2 = [a \in Addrs |-> 0]
    /\ cx2 = ZeroCx
    /\ before = <<>>

\* the first access of APP_MANAGER (batch::init): the initialiser of the
\* lazy_static runs and panics at app_start[..=num_app] or returns the manager
APP_MANAGER_init ==
    /\ pc = "init"
    /\ IF range_to_inclusive_ok(blob.num, MAX_APP_NUM + 1)
       THEN LET m == AppManager_new(blob.num, blob.table) IN
            /\ num_app' = m.num_app
            /\ current_app' = m.current_app
            /\ app_start' = m.app_start
            /\ pc' = "boot"
       ELSE /\ pc' = "panic"
            /\ UNCHANGED <<num_app, current_app, app_start>>
    /\ UNCHANGED <<mem, cx, sstatus, scause, in_flight, loaded, init_args,
                   sys_log, blob, borrowed, cx_addr, second>>

NextMgr == APP_MANAGER_init

MgrSpec == InitMgr /\ [][NextMgr]_vars

(***************************************************************************)
(* Two runs side by side: the same table and the same launches, and an     *)
(* application that stored and trapped differently in the second run       *)
(***************************************************************************)
\* the saved state of a trap with the registers regs
TrapFrame(regs) ==
    [x |-> regs, sstatus |-> [spp |-> "User", spie |-> 1], sepc |-> APP_BASE_ADDRESS]

\* the register file of the first run
FirstRegs == CHOOSE r \in UserRegFiles : r[17] = 64 /\ r[10] = 1

\* both runs are about to load application current_app: at boot, or in
\* trap_handler after application current_app - 1 trapped with a fault
InitPair ==
    /\ \E n \in 1 .. MaxApps : \E raw \in Tables(n) :
          LET m == AppManager_new(n, raw) IN
          /\ blob = [num |-> n, table |-> raw]
          /\ num_app = m.num_app
          /\ app_start = m.app_start
    /\ current_app \in 0 .. (num_app - 1)
    /\ \E w \in [Window -> {0, Junk}] : mem = BootMem(w)
    /\ mem2 = mem
    /\ cx = TrapFrame(FirstRegs)
    /\ \E r \in UserRegFiles : cx2 = TrapFrame(r)
    /\ sstatus = [spp |-> "User", spie |-> 1]
    /\ scause = IF current_app = 0 THEN NoCause ELSE "StoreFault"
    /\ pc = "pair"
    /\ in_flight = current_app - 1
    /\ loaded = [k \in 1 .. current_app |-> k - 1]
    /\ init_args = <<>>
    /\ sys_log = <<>>
    /\ borrowed = FALSE
    /\ cx_addr = push_context_ptr
    /\ before = <<>>

\* the second run differs by a byte stored in the window or on the user
\* stack
StoreSecond ==
    /\ pc = "pair"
    /\ \E a \in Window \cup StackAddrs, v \in {0, Junk} :
          /\ mem2[a] # v
          /\ mem2' = [mem2 EXCEPT ![a] = v]
    /\ UNCHANGED <<num_app, current_app, app_start, mem, cx, sstatus, scause,
                   pc, in_flight, loaded, init_args, sys_log, blob, borrowed,
                   cx_addr, cx2, before>>

\* run_next_app in both runs: load_app, move_to_next_app, app_init_context,
\* push_context, __restore
LaunchPair ==
    /\ pc = "pair"
    /\ before' = <<mem, mem2>>
    /\ loaded' = Append(loaded, get_current_app(current_app))
    /\ mem' = load_app(mem, app_start, get_current_app(current_app))
    /\ mem2' = load_app(mem2, app_start, get_current_app(current_app))
    /\ current_app' = move_to_next_app(current_app)
    /\ init_args' = <<APP_BASE_ADDRESS, UserStack_get_sp>>
    /\ cx' = push_context(
               app_init_context(APP_BASE_ADDRESS, UserStack_get_sp, sstatus))
    /\ cx2' = push_context(
                app_init_context(APP_BASE_ADDRESS, UserStack_get_sp, sstatus))
    /\ cx_addr' = push_context_ptr
    /\ sstatus' = cx'.sstatus
    /\ in_flight' = get_current_app(current_app)
    /\ pc' = "pair_done"
    /\ UNCHANGED <<num_app, app_start, scause, sys_log, blob, borrowed>>

NextPair == StoreSecond \/ LaunchPair

PairSpec == InitPair /\ [][NextPair]_vars

(***************************************************************************)
(* Claims                                                                  *)
(***************************************************************************)
\* a step of run_next_app that loaded an application
Launched == Len(loaded') = Len(loaded) + 1
\* trap_handler is entered for a trap with a recoverable fault
FaultHandled == pc = "trap" /\ scause \in {"IllegalInstruction", "StoreFault", "StorePageFault"}
\* the length of application i in the table
AppLen(i) == app_start[i + 1] - app_start[i]

\* C1: the k-th run_next_app that loads an application loads index k - 1,
\* so the applications are loaded in ascending order, none skipped and none
\* loaded twice
C1_AscendingLaunches == \A k \in 1 .. Len(loaded) : loaded[k] = k - 1

\* C1 witness: a second application has been loaded after the first
C1_Witness == loaded = <<0, 1>> /\ pc = "user" /\ in_flight = 1

\* C2: trap_handler on an illegal instruction, a store fault or a store page
\* fault does not resume the faulting application: it launches index
\* current_app, the application after the faulting one, or shuts down when
\* there is none
C2_FaultNeverResumes ==
    [][FaultHandled =>
        /\ ~(pc' = "user" /\ in_flight' = in_flight)
        /\ IF current_app < num_app
           THEN /\ pc' = "user"
                /\ in_flight' = current_app
                /\ in_flight' = in_flight + 1
                /\ loaded' = Append(loaded, current_app)
           ELSE /\ pc' = "shutdown"
                /\ in_flight' = NoApp
                /\ loaded' = loaded]_vars

\* C2 witness: application 1 runs because application 0 trapped with a store
\* fault
C2_Witness ==
    /\ pc = "user" /\ in_flight = 1 /\ loaded = <<0, 1>>
    /\ scause \in {"StoreFault", "StorePageFault"}

\* C3: a system-call trap with resume address P, identifier X in slot 17 and
\* arguments (a, b, c) in slots 10, 11, 12 calls syscall exactly once, with
\* (X, [a, b, c]), and returns to the application with resume address P + 4
\* and the result, as a machine word, in slot 10
C3_SyscallAbi ==
    [][(pc = "trap" /\ scause = "UserEnvCall") =>
        /\ pc' = "user"
        /\ in_flight' = in_flight
        /\ Len(sys_log') = 1
        /\ sys_log'[1].call.id = cx.x[17]
        /\ sys_log'[1].call.args = <<cx.x[10], cx.x[11], cx.x[12]>>
        /\ cx'.sepc = cx.sepc + 4
        /\ cx'.x[10] = IF sys_log'[1].ret >= 0 THEN sys_log'[1].ret
                       ELSE UsizeMod + sys_log'[1].ret]_vars

\* C3 witness: the call (64, [1, 2, 3]) made at the window base returned -1
C3_Witness ==
    /\ pc = "user" /\ scause = "UserEnvCall"
    /\ sys_log = <<[call |-> [id |-> 64, args |-> <<1, 2, 3>>], ret |-> 0 - 1]>>
    /\ cx.sepc = APP_BASE_ADDRESS + 4
    /\ cx.x[10] = UsizeMod - 1

\* C4: after load_app(i) the first table[i+1] - table[i] bytes from the
\* window base are the bytes of the source range and the rest of the window
\* is zero, whatever the window held
C4_LoadCopiesAndZeroFills ==
    [][Launched =>
        LET i == loaded'[Len(loaded')] IN
        /\ i < num_app
        /\ \A k \in 0 .. (AppLen(i) - 1) :
              mem'[APP_BASE_ADDRESS + k] = mem[app_start[i] + k]
        /\ \A k \in AppLen(i) .. (APP_SIZE_LIMIT - 1) :
              mem'[APP_BASE_ADDRESS + k] = 0]_vars

\* C4 witness: application 1, one byte long, has just been loaded after
\* application 0 was killed: its byte and zeros fill the window
C4_Witness ==
    /\ pc = "user" /\ in_flight = 1 /\ scause \in FaultCauses
    /\ AppLen(1) = 1 /\ AppLen(0) = 2
    /\ mem[APP_BASE_ADDRESS] = ImageByte(app_start[1])
    /\ \A a \in Window \ {APP_BASE_ADDRESS} : mem[a] = 0

\* C5: a launch with current_app >= num_app runs no application and shuts
\* down, with the window, current_app, the saved state and the console as
\* they were
C5_ExhaustionShutsDown ==
    /\ [](pc = "user" => in_flight \in 0 .. (num_app - 1))
    /\ [][((pc = "boot" \/ FaultHandled) /\ current_app >= num_app) =>
            /\ pc' = "shutdown"
            /\ in_flight' = NoApp
            /\ mem' = mem
            /\ current_app' = current_app
            /\ cx' = cx
            /\ init_args' = init_args
            /\ loaded' = loaded]_vars

\* C5 witness: with no application the first launch shut the machine down,
\* nothing was loaded and no saved state was built
C5_Witness ==
    /\ pc = "shutdown" /\ num_app = 0 /\ current_app = 0
    /\ loaded = <<>> /\ init_args = <<>>

\* C6: if every launched application eventually traps with a recoverable
\* fault and no trap has an unsupported cause, the machine eventually shuts
\* down with current_app = num_app, after exactly the applications
\* 0 .. num_app - 1 were loaded
C6_FaultsLeadToShutdown ==
    ([](pc # "panic") /\ ((pc = "user") ~> FaultHandled))
        => <>(/\ pc = "shutdown"
              /\ current_app = num_app
              /\ loaded = [k \in 1 .. num_app |-> k - 1])

\* C6 witness: two applications were loaded, each was killed for a fault,
\* and the third launch shut the machine down
C6_Witness ==
    /\ pc = "shutdown" /\ num_app = 2 /\ current_app = 2
    /\ loaded = <<0, 1>> /\ scause \in FaultCauses

\* C7: app_init_context(entry, sp) has SPP = User, resume address entry,
\* sp in slot 2 and zero in every other register slot
C7_InitContext ==
    pc = "ctx_done" =>
        /\ cx.sstatus.spp = "User"
        /\ cx.sepc = init_args[1]
        /\ cx.x[2] = init_args[2]
        /\ \A i \in Regs \ {2} : cx.x[i] = 0

\* C7 witness: a context built for entry 3 and stack pointer 4 while SPP
\* was Supervisor
C7_Witness ==
    /\ pc = "ctx_done" /\ init_args = <<3, 4>> /\ sstatus.spp = "Supervisor"
    /\ cx.sepc = 3 /\ cx.x[2] = 4 /\ cx.sstatus.spp = "User"

\* C8: current_app starts at 0, grows by exactly 1 in each run_next_app
\* that loads an application (its move_to_next_app), and no other step
\* changes it
C8_CurrentAppCounter ==
    /\ current_app = 0
    /\ [][IF Launched THEN current_app' = current_app + 1
                      ELSE current_app' = current_app]_vars

\* C8 witness: after two launches and a system call current_app is 2
C8_Witness ==
    /\ current_app = 2 /\ Len(loaded) = 2
    /\ pc = "user" /\ scause = "UserEnvCall" /\ Len(sys_log) = 1

C11_InitChecksCount ==
    pc # "init" =>
        IF blob.num > 16
        THEN /\ pc = "panic"
             /\ num_app = 0 /\ app_start = [i \in 0 .. 16 |-> 0]
             /\ loaded = <<>> /\ in_flight = NoApp
             /\ ~ENABLED Next
        ELSE /\ pc = "boot"
             /\ num_app = blob.num
             /\ current_app = 0
             /\ \A i \in 0 .. blob.num : app_start[i] = blob.table[i]

\* C11 witness: a table of 17 applications made the construction panic
C11_Witness == pc = "panic" /\ blob.num = 17 /\ Len(loaded) = 0

\* C12: the exclusive access to the Application Manager is released before
\* __restore is issued, and no run_next_app, from rust_main or from the
\* fault arms of trap_handler, finds the manager borrowed
C12_ExclusiveAccess ==
    /\ pc \in {"user", "trap", "boot"} => ~borrowed
    /\ pc = "panic" => scause \in OtherCauses

\* C12 witness: the second run_next_app, called from trap_handler for a
\* store fault, borrowed the manager again and released it before __restore
C12_Witness ==
    /\ pc = "user" /\ in_flight = 1 /\ current_app = 2
    /\ scause = "StorePageFault" /\ ~borrowed

\* C13: a system-call trap changes the resume address and slot 10 of the
\* saved state and nothing else: the other register slots, sstatus,
\* current_app and the memory stay as they are, and the same application
\* resumes from the same saved state
C13_SyscallFrame ==
    [][(pc = "trap" /\ scause = "UserEnvCall") =>
        /\ \A i \in Regs \ {10} : cx'.x[i] = cx.x[i]
        /\ cx'.sstatus = cx.sstatus
        /\ cx_addr' = cx_addr
        /\ current_app' = current_app
        /\ num_app' = num_app /\ app_start' = app_start
        /\ mem' = mem
        /\ loaded' = loaded
        /\ pc' = "user" /\ in_flight' = in_flight
        /\ sstatus' = cx.sstatus]_vars

\* C13 witness: after the call (93, [3, 1, 2]) of application 1 returned 5
\* the saved state still has 93 in slot 17, 1 and 2 in slots 11 and 12, 7
\* in slot 5 and the stack pointer in slot 2
C13_Witness ==
    /\ pc = "user" /\ scause = "UserEnvCall" /\ in_flight = 1
    /\ Len(sys_log) = 1 /\ sys_log[1].ret = 5
    /\ cx.x[10] = 5 /\ cx.x[11] = 1 /\ cx.x[12] = 2 /\ cx.x[17] = 93
    /\ cx.x[5] = 7 /\ cx.x[2] = UserStack_get_sp
    /\ cx.sstatus.spp = "User"

\* C14: load_app(i) writes only addresses of the execution window, never a
\* byte at or past APP_BASE_ADDRESS + APP_SIZE_LIMIT, for every table the
\* manager accepts
C14_LoadStaysInWindow ==
    [][Launched => \A a \in Addrs \ Window : mem'[a] = mem[a]]_vars

\* the two runs agree on the addresses S
SameOn(m1, m2, S) == \A a \in S : m1[a] = m2[a]

\* C15: two runs that differ in what the window held before load_app(i)
\* have the same window contents after it
C15_NoWindowResidue ==
    pc = "pair_done" => SameOn(mem, mem2, Window)

\* C15 witness: the runs differed only in the window, in the byte after a
\* one-byte image, and agree on the window after the load
C15_Witness ==
    /\ pc = "pair_done"
    /\ AppLen(in_flight) = 1
    /\ before[1][APP_BASE_ADDRESS + 1] # before[2][APP_BASE_ADDRESS + 1]
    /\ SameOn(before[1], before[2], Addrs \ Window)
    /\ SameOn(mem, mem2, Window)

\* C16: after a fault, what the next application sees (its initial
\* registers, the execution window, the user stack it is handed) does not
\* depend on what the faulting application stored or left in its registers
C16_NothingSurvivesFault ==
    (pc = "pair_done" /\ scause \in FaultCauses) =>
        /\ cx = cx2
        /\ SameOn(mem, mem2, Window)
        /\ SameOn(mem, mem2, StackAddrs)

\* C17: every launch writes the initial saved state at the same address,
\* the top of KERNEL_STACK minus the size of a TrapContext, wholly inside
\* KERNEL_STACK, with entry = APP_BASE_ADDRESS and stack pointer = the top
\* of USER_STACK, whatever launches and traps came before; the saved state
\* of every trap is at that one address too
C17_StacksReusedFromTop ==
    /\ [](pc \in {"user", "trap"} =>
            /\ cx_addr = KERNEL_STACK_ADDR + KERNEL_STACK_SIZE - TrapContext_size
            /\ cx_addr >= KERNEL_STACK_ADDR
            /\ cx_addr + TrapContext_size <= KERNEL_STACK_ADDR + KERNEL_STACK_SIZE)
    /\ [][Launched =>
            /\ cx_addr' = KERNEL_STACK_ADDR + KERNEL_STACK_SIZE - TrapContext_size
            /\ cx'.sepc = APP_BASE_ADDRESS
            /\ cx'.x[2] = USER_STACK_ADDR + USER_STACK_SIZE
            /\ init_args' = <<APP_BASE_ADDRESS, USER_STACK_ADDR + USER_STACK_SIZE>>]_vars

\* C17 witness: application 1, launched after application 0 made a system
\* call at another address and was killed, starts from the same saved state
\* address, entry and stack pointer
C17_Witness ==
    /\ pc = "user" /\ in_flight = 1 /\ loaded = <<0, 1>>
    /\ scause = "IllegalInstruction"
    /\ cx_addr = KERNEL_STACK_ADDR + KERNEL_STACK_SIZE - TrapContext_size
    /\ cx.sepc = APP_BASE_ADDRESS
    /\ cx.x[2] = USER_STACK_ADDR + USER_STACK_SIZE
    /\ cx.x[17] = 0

\* C18: current_app never exceeds num_app, and while application k is in
\* flight, in user mode or on entry to trap_handler, current_app = k + 1
C18_CurrentAppBound ==
    /\ current_app <= num_app
    /\ pc \in {"user", "trap"} =>
          /\ in_flight \in 0 .. (num_app - 1)
          /\ current_app = in_flight + 1

\* C18 witness: the last of two applications has trapped: current_app is
\* already num_app
C18_Witness ==
    /\ pc = "trap" /\ in_flight = 1 /\ num_app = 2 /\ current_app = 2

====
